---------------------------- MODULE Spec2Model ----------------------------
(***************************************************************************)
(* A model of rspamd's lua_magic file type detector                        *)
(* (lualib/lua_magic/init.lua) and of the rspamd_text buffer it scans      *)
(* (src/lua/lua_text.c).                                                   *)
(*                                                                         *)
(* Spec     : the detector.  One registry of signature patterns is fixed   *)
(*            in Init; detect is called on inputs drawn from Inputs and    *)
(*            runs tail check, short check, early exit, long scan and      *)
(*            final ranking as separate steps of one call.                 *)
(* SpecText : the life cycle of rspamd_text userdata and of the storage    *)
(*            blocks they own or borrow.                                   *)
(* SpecApi  : the methods of one rspamd_text (span, at, bytes, lines,      *)
(*            split) called on texts drawn from ApiTexts.                  *)
(***************************************************************************)
EXTENDS Integers, Sequences, FiniteSets, TLC

VARIABLES
    \* ---- lua_magic module state (init.lua:33-43) ----
    patterns,                 \* require "lua_magic/patterns": the registry
    compiled_patterns,        \* trie over processed_patterns (long tier)
    compiled_short_patterns,  \* trie over short_patterns
    compiled_tail_patterns,   \* trie over tail_patterns
    processed_patterns,       \* {str, match, pattern} of the long tier
    short_patterns,           \* {str, match, pattern} of the short tier
    tail_patterns,            \* {str, match, pattern} of the tail tier
    max_short_offset,
    min_tail_offset,
    \* ---- one detect call ----
    pc,                       \* position inside exports.detect
    inkind,                   \* type(input): "string", "userdata", "table"
    input,                    \* the bytes of the input
    res,                      \* confidence map ext -> weight
    ret,                      \* what detect returned
    \* ---- history of the current call (not read by the code) ----
    scans,                    \* the match_chunk calls made, in order
    fired,                    \* per tier and pattern index: add_result calls
    resShort,                 \* res as it was after the short check
    was_compiled,             \* the latest call found the tries compiled
    \* ---- rspamd_text userdata and storage (lua_text.c) ----
    texts,                    \* the userdata created so far
    heap,                     \* the storage blocks allocated so far
    iters,                    \* the closures returned by text:lines()
    \* ---- calls of the rspamd_text methods on one text ----
    subject,                  \* the bytes t->start[0 .. t->len) of that text
    call,                     \* the last span, at or bytes call and its result
    closure                   \* a lines or split iterator and what it yielded

dvars == <<patterns, compiled_patterns, compiled_short_patterns,
           compiled_tail_patterns, processed_patterns, short_patterns,
           tail_patterns, max_short_offset, min_tail_offset, pc, inkind,
           input, res, ret, scans, fired, resShort, was_compiled>>
tvars == <<texts, heap, iters>>
avars == <<subject, call, closure>>
vars == <<dvars, tvars, avars>>

(***************************************************************************)
(* Bounds and program constants                                            *)
(***************************************************************************)
\* init.lua:41
short_match_limit == 128
\* init.lua:43, math.huge: above every length and every tail of the model
huge == 1000000
\* init.lua:302, exports.chunk_size: a settable knob, set small here
chunk_size == 2
\* init.lua:263, the early exit threshold
confidence_threshold == 30
\* inputs are at most 3 * chunk_size + ExtraLen bytes long
ExtraLen == 2
MaxLen == 3 * chunk_size + ExtraLen
Alphabet == {1, 2}

(***************************************************************************)
(* Lua values                                                              *)
(***************************************************************************)
\* an optional number: nil or a number
None == [has |-> FALSE, v |-> 0]
Some(x) == [has |-> TRUE, v |-> x]
\* match.position: nil, a plain number, or a table {op, number}
PosNil == [t |-> "nil", op |-> "", v |-> 0]
PosNum(n) == [t |-> "number", op |-> "", v |-> n]
PosCmp(o, n) == [t |-> "table", op |-> o, v |-> n]
\* match.positions: nil or a list of positions
NoPositions == [has |-> FALSE, list |-> << >>]
Positions(l) == [has |-> TRUE, list |-> l]

Min(a, b) == IF a < b THEN a ELSE b
SeqsUpTo(S, n) == UNION {[1..k -> S] : k \in 0..n}
SubSeqAt(s, off, len) == [i \in 1..len |-> s[off + i]]

(***************************************************************************)
(* The registry: lua_magic/patterns and lua_magic/types are data of the    *)
(* repository that the detector only reads.  A match is                    *)
(*   {string|hex, position, positions, relative_position, tail, weight}.   *)
(***************************************************************************)
Str(lit, pos, w) ==
    [kind |-> "string", lit |-> lit, position |-> pos, positions |-> NoPositions,
     relative_position |-> None, tail |-> None, weight |-> w]
Hex(lit, pos, w) == [Str(lit, pos, w) EXCEPT !.kind = "hex"]
WithTail(m, t) == [m EXCEPT !.tail = Some(t)]
WithRel(m, r) == [m EXCEPT !.relative_position = Some(r)]
WithPositions(m, l) == [m EXCEPT !.positions = Positions(l)]
Pat(e, ms) == [ext |-> e, matches |-> ms]

PK34 == <<80, 75, 3, 4>>

\* the spec's scenario: one candidate, one short pattern at position 0
RegZip == << Pat("zip", << Str(PK34, PosNum(0), Some(50)) >>) >>
\* a tail pattern of 4 bytes anchored at the end, and a long pattern
RegTail ==
    << Pat("tl", << WithTail(Str(<<1, 2, 2, 1>>, PosNum(-5), Some(10)), 4) >>),
       Pat("lg", << Str(<<2, 2>>, PosCmp(">=", 0), None) >>),
       Pat("sh", << Str(<<1, 1>>, PosNum(-3), Some(1)) >>) >>
\* short patterns around the threshold, a heavier long pattern
RegExit ==
    << Pat("a", << Str(<<1>>, PosNum(0), Some(31)) >>),
       Pat("b", << Str(<<2>>, PosCmp(">=", 0), Some(40)) >>),
       Pat("c", << Str(<<1, 1>>, PosNum(1), Some(30)) >>),
       Pat("far", << Str(<<2, 2, 2>>, PosNum(127), None) >>) >>
\* long patterns with comparators and positions lists
RegLong ==
    << Pat("d", << Str(<<1, 2>>, PosCmp(">", 0), Some(3)) >>),
       Pat("e", << WithPositions(Str(<<2, 1>>, PosNil, Some(5)),
                                 << PosNum(0), PosCmp("<", 3) >>) >>),
       Pat("f", << WithPositions(Str(<<2, 2>>, PosCmp("!=", 1), None),
                                 << PosCmp("<=", -2) >>) >>) >>
\* every shape the tier classification distinguishes
RegTiers ==
    << Pat("g", << WithTail(Str(<<1>>, PosCmp(">", 0), Some(2)), 1),
                   WithTail(WithRel(Str(<<2, 1>>, PosNil, None), 0), 3) >>),
       Pat("h", << Str(<<1, 1>>, PosNum(128), None),
                   Str(<<2>>, PosNum(-1), Some(4)),
                   Hex(<<0, 1, 0, 2>>, PosNum(3), Some(7)) >>),
       Pat("k", << WithTail(Str(<<2, 2>>, PosNil, Some(9)), 2),
                   WithRel(Hex(<<0, 2, 0, 2>>, PosNil, None), 1) >>) >>
\* no short and no tail pattern at all
RegLongOnly ==
    << Pat("m", << Str(<<1, 1>>, PosCmp("<", 4), Some(35)),
                   Str(<<2>>, PosNum(200), None) >>) >>

Registries == {RegZip, RegTail, RegExit, RegLong, RegTiers, RegLongOnly}

Exts == {"zip", "tl", "lg", "sh", "a", "b", "c", "far", "d", "e", "f", "g", "h",
         "k", "m"}
\* lua_magic/types: every candidate has a descriptor
types == [e \in Exts |-> <<"type", e>>]

Inputs == SeqsUpTo(Alphabet, MaxLen)
            \cup {PK34 \o s : s \in SeqsUpTo(Alphabet, 1)}

(***************************************************************************)
(* process_patterns (init.lua:45-132)                                      *)
(***************************************************************************)
\* the mutable tables and offsets add_processed writes
EmptyTiers ==
    [processed |-> << >>, short |-> << >>, tail |-> << >>,
     max_short_offset |-> -1, min_tail_offset |-> huge]

Entry(str, match, ext) == [str |-> str, match |-> match, ext |-> ext]

\* a variant that looks at tail before it looks at the position
add_processed_tail_first(st, str, match, ext) ==
    IF match.tail.has
    THEN [st EXCEPT !.tail = Append(@, Entry(str, match, ext)),
                    !.min_tail_offset = Min(@, match.tail.v)]
    ELSE IF match.position.t = "number" /\ match.position.v < short_match_limit
    THEN [st EXCEPT !.short = Append(@, Entry(str, match, ext)),
                    !.max_short_offset =
                        IF @ < match.position.v THEN match.position.v ELSE @]
    ELSE [st EXCEPT !.processed = Append(@, Entry(str, match, ext))]

add_processed(st, str, match, ext) ==
    IF match.position.t = "number"
    THEN IF match.tail.has
         THEN [st EXCEPT !.tail = Append(@, Entry(str, match, ext)),
                         !.min_tail_offset =
                             IF @ > match.tail.v THEN match.tail.v ELSE @]
         ELSE IF match.position.v < short_match_limit
         THEN [st EXCEPT !.short = Append(@, Entry(str, match, ext)),
                         !.max_short_offset =
                             IF @ < match.position.v THEN match.position.v ELSE @]
         ELSE [st EXCEPT !.processed = Append(@, Entry(str, match, ext))]
    ELSE [st EXCEPT !.processed = Append(@, Entry(str, match, ext))]

\* init.lua:99-104: two hex digits make one byte of the pattern
HexBytes(h) == [i \in 1..(Len(h) \div 2) |-> 16 * h[2 * i - 1] + h[2 * i]]

\* init.lua:93-110: resolve relative_position, then classify
ResolveMatch(match) ==
    LET n == IF match.kind = "string" THEN Len(match.lit)
             ELSE Len(match.lit) \div 2
    IN  IF match.relative_position.has /\ match.position.t = "nil"
        THEN [match EXCEPT !.position = PosNum(match.relative_position.v + n)]
        ELSE match

PatternStr(match) ==
    IF match.kind = "string" THEN match.lit ELSE HexBytes(match.lit)

RECURSIVE FlattenPatterns(_)
FlattenPatterns(ps) ==
    IF ps = << >> THEN << >>
    ELSE [i \in 1..Len(Head(ps).matches) |->
             [ext |-> Head(ps).ext, match |-> Head(ps).matches[i]]]
         \o FlattenPatterns(Tail(ps))

RECURSIVE AddAll(_, _)
AddAll(st, flat) ==
    IF flat = << >> THEN st
    ELSE LET m == ResolveMatch(Head(flat).match)
         IN  AddAll(add_processed(st, PatternStr(m), m, Head(flat).ext),
                    Tail(flat))

\* a trie handle: nil until compiled, then the pattern strings by index
NilTrie == [nil |-> TRUE, strs |-> << >>]
TrieCreate(tbl) == [nil |-> FALSE, strs |-> [i \in DOMAIN tbl |-> tbl[i].str]]

\* a process_patterns without its guard
process_patterns_unguarded ==
    LET st == AddAll([processed |-> processed_patterns,
                      short |-> short_patterns,
                      tail |-> tail_patterns,
                      max_short_offset |-> max_short_offset,
                      min_tail_offset |-> min_tail_offset],
                     FlattenPatterns(patterns))
    IN  /\ processed_patterns' = st.processed
        /\ short_patterns' = st.short
        /\ tail_patterns' = st.tail
        /\ max_short_offset' = st.max_short_offset
        /\ min_tail_offset' = st.min_tail_offset
        /\ compiled_patterns' = TrieCreate(st.processed)
        /\ compiled_short_patterns' = TrieCreate(st.short)
        /\ compiled_tail_patterns' = TrieCreate(st.tail)

\* the whole of process_patterns: a no-op once compiled_patterns is set
process_patterns ==
    IF compiled_patterns.nil
    THEN LET st == AddAll([processed |-> processed_patterns,
                           short |-> short_patterns,
                           tail |-> tail_patterns,
                           max_short_offset |-> max_short_offset,
                           min_tail_offset |-> min_tail_offset],
                          FlattenPatterns(patterns))
         IN  /\ processed_patterns' = st.processed
             /\ short_patterns' = st.short
             /\ tail_patterns' = st.tail
             /\ max_short_offset' = st.max_short_offset
             /\ min_tail_offset' = st.min_tail_offset
             /\ compiled_patterns' = TrieCreate(st.processed)
             /\ compiled_short_patterns' = TrieCreate(st.short)
             /\ compiled_tail_patterns' = TrieCreate(st.tail)
    ELSE UNCHANGED <<processed_patterns, short_patterns, tail_patterns,
                     max_short_offset, min_tail_offset, compiled_patterns,
                     compiled_short_patterns, compiled_tail_patterns>>

(***************************************************************************)
(* rspamd_text:span (lua_text.c:362-394)                                   *)
(***************************************************************************)
SpanErr(m) == [err |-> TRUE, msg |-> m, off |-> 0, len |-> 0]
SpanOk(o, l) == [err |-> FALSE, msg |-> "", off |-> o, len |-> l]

\* tlen = t->len, start = argument 2, len = argument 3 (None: not a number).
\* The result views bytes [off, off + len) of the text, 0-based.
\* t->len is a guint and start a gint64, so line 377 compares signed 64-bit
\* values: a negative len other than -1 passes it and lua_new_text stores it
\* as an unsigned length; the len of the result is then negative here and
\* stands for 2^32 + len.
lua_text_span(tlen, start, len) ==
    IF start >= 1 /\ start <= tlen
    THEN LET l == IF len.has THEN len.v ELSE -1
         IN  IF l = -1
             THEN SpanOk(start - 1, tlen - (start - 1))
             ELSE IF l > (tlen - (start - 1))
             THEN SpanErr("invalid length")
             ELSE SpanOk(start - 1, l)
    ELSE SpanErr("invalid arguments: start offset is larger than text len")

(***************************************************************************)
(* rspamd_trie: the multi-pattern matcher, used through create and match.  *)
(* match returns, for every pattern found in the text, the 0-based start   *)
(* offsets of its occurrences inside the scanned text.                     *)
(***************************************************************************)
OccursAt(lit, text, k) ==
    /\ k + Len(lit) <= Len(text)
    /\ \A i \in 1..Len(lit) : text[k + i] = lit[i]

Offsets(lit, text) ==
    LET Hit(k) == OccursAt(lit, text, k)
    IN  SelectSeq([i \in 1..(Len(text) + 1) |-> i - 1], Hit)

TrieMatch(trie, text) ==
    LET found == {i \in DOMAIN trie.strs : Offsets(trie.strs[i], text) # << >>}
    IN  [i \in found |-> Offsets(trie.strs[i], text)]

(***************************************************************************)
(* match_chunk (init.lua:134-217)                                          *)
(***************************************************************************)
\* init.lua:158-181; last is the length of the whole input
match_position(pos, expected, last) ==
    LET op == IF expected.t = "table" THEN expected.op ELSE "=="
        e == IF expected.v < 0 THEN last + expected.v + 1 ELSE expected.v
    IN  CASE op = ">" -> pos > e
          [] op = ">=" -> pos >= e
          [] op = "<" -> pos < e
          [] op = "<=" -> pos <= e
          [] op = "!=" -> pos # e
          [] OTHER -> pos = e

\* init.lua:139-151
add_result(r, match, ext) ==
    LET r0 == [e \in DOMAIN r \cup {ext} |-> IF e \in DOMAIN r THEN r[e] ELSE 0]
        w == IF match.weight.has THEN match.weight.v ELSE 1
    IN  [r0 EXCEPT ![ext] = @ + w]

\* init.lua:183-194: some matched offset satisfies the single position
SinglePosition(match, offs, offset, last) ==
    /\ match.position.t # "nil"
    /\ \E i \in DOMAIN offs : match_position(offs[i] + offset, match.position, last)

\* the positions branch as "every constraint holds at some offset"
AllPositions_and(match, offs, offset, last) ==
    /\ match.positions.has
    /\ \A j \in DOMAIN match.positions.list :
          \E i \in DOMAIN offs :
              match_position(offs[i] + offset, match.positions.list[j], last)

\* init.lua:196-215: all_right, as the loops compute it
AllPositions(match, offs, offset, last) ==
    /\ match.positions.has
    /\ \A j \in DOMAIN match.positions.list :
          \E i \in DOMAIN offs :
              ~match_position(offs[i] + offset, match.positions.list[j], last)

\* how often the body of the loop at init.lua:153 calls add_result
AddCount(entry, offs, offset, last) ==
    (IF SinglePosition(entry.match, offs, offset, last) THEN 1 ELSE 0)
    + (IF AllPositions(entry.match, offs, offset, last) THEN 1 ELSE 0)

RECURSIVE AddTimes(_, _, _, _)
AddTimes(r, match, ext, n) ==
    IF n = 0 THEN r ELSE AddTimes(add_result(r, match, ext), match, ext, n - 1)

RECURSIVE MatchFold(_, _, _, _, _, _)
MatchFold(i, matches, last, offset, tbl, r) ==
    IF i > Len(tbl) THEN r
    ELSE MatchFold(i + 1, matches, last, offset, tbl,
            IF i \in DOMAIN matches
            THEN AddTimes(r, tbl[i].match, tbl[i].ext,
                          AddCount(tbl[i], matches[i], offset, last))
            ELSE r)

\* the confidence map after match_chunk(input, tlen, offset, trie, tbl, .., res)
match_chunk(text, tlen, offset, trie, tbl, r) ==
    MatchFold(1, TrieMatch(trie, text), tlen, offset, tbl, r)

\* per pattern index, the add_result calls of that match_chunk
ChunkFired(text, tlen, offset, trie, tbl) ==
    LET matches == TrieMatch(trie, text)
    IN  [i \in DOMAIN tbl |->
            IF i \in DOMAIN matches
            THEN AddCount(tbl[i], matches[i], offset, tlen) ELSE 0]

(***************************************************************************)
(* process_detected (init.lua:219-231)                                     *)
(***************************************************************************)
\* the candidates table.sort may leave first: those of greatest weight
TopExts(r) == {e \in DOMAIN r : \A f \in DOMAIN r : r[e] >= r[f]}
\* res[extensions[1]]
Confidence(r) == r[CHOOSE e \in TopExts(r) : TRUE]

(***************************************************************************)
(* exports.detect (init.lua:233-298), one action per phase                 *)
(***************************************************************************)
EmptyRes == [e \in {} |-> 0]
NoRet == [found |-> FALSE, ext |-> "", desc |-> << >>]
Found(e) == [found |-> TRUE, ext |-> e, desc |-> types[e]]
\* a match_chunk call over bytes [from, to) of the input with this offset
Scan(tier, sp, offset) ==
    [tier |-> tier, from |-> sp.off, to |-> sp.off + sp.len, offset |-> offset]
AddFired(f, tier, cnt) ==
    [f EXCEPT ![tier] = [i \in DOMAIN @ |-> @[i] + cnt[i]]]
Chunk(sp) == SubSeqAt(input, sp.off, sp.len)

\* init.lua:233-246 and the else branch at 285-288: assert(0, ..) passes,
\* since 0 is a true value in Lua, so a table input goes on to line 290
DetectCall(kind, inp) ==
    /\ pc = "idle"
    /\ process_patterns
    /\ inkind' = kind
    /\ input' = inp
    /\ res' = EmptyRes
    /\ resShort' = EmptyRes
    /\ ret' = NoRet
    /\ scans' = << >>
    /\ fired' = [tail |-> [i \in DOMAIN tail_patterns' |-> 0],
                 short |-> [i \in DOMAIN short_patterns' |-> 0],
                 long |-> [i \in DOMAIN processed_patterns' |-> 0]]
    /\ pc' = IF kind = "table" THEN "final" ELSE "tail"
    /\ was_compiled' = ~compiled_patterns.nil
    /\ UNCHANGED <<patterns, tvars, avars>>

registry == <<patterns, compiled_patterns, compiled_short_patterns,
              compiled_tail_patterns, processed_patterns, short_patterns,
              tail_patterns, max_short_offset, min_tail_offset>>

\* init.lua:248-253
TailCheck ==
    /\ pc = "tail"
    /\ LET inplen == Len(input)
           sp == lua_text_span(inplen, inplen - min_tail_offset,
                               Some(min_tail_offset))
           off == inplen - min_tail_offset
       IN  IF inplen > min_tail_offset
           THEN IF sp.err
                THEN /\ pc' = "error"
                     /\ UNCHANGED <<res, scans, fired>>
                ELSE /\ res' = match_chunk(Chunk(sp), inplen, off,
                                   compiled_tail_patterns, tail_patterns, res)
                     /\ scans' = Append(scans, Scan("tail", sp, off))
                     /\ fired' = AddFired(fired, "tail",
                                   ChunkFired(Chunk(sp), inplen, off,
                                       compiled_tail_patterns, tail_patterns))
                     /\ pc' = "short"
           ELSE /\ pc' = "short"
                /\ UNCHANGED <<res, scans, fired>>
    /\ UNCHANGED <<registry, was_compiled, inkind, input, ret, resShort, tvars, avars>>

\* init.lua:255-258
ShortCheck ==
    /\ pc = "short"
    /\ LET inplen == Len(input)
           sp == lua_text_span(inplen, 1, Some(Min(max_short_offset, inplen)))
       IN  IF sp.err
           THEN /\ pc' = "error"
                /\ UNCHANGED <<res, scans, fired, resShort>>
           ELSE /\ res' = match_chunk(Chunk(sp), inplen, 0,
                              compiled_short_patterns, short_patterns, res)
                /\ resShort' = res'
                /\ scans' = Append(scans, Scan("short", sp, 0))
                /\ fired' = AddFired(fired, "short",
                              ChunkFired(Chunk(sp), inplen, 0,
                                  compiled_short_patterns, short_patterns))
                /\ pc' = "decide"
    /\ UNCHANGED <<registry, was_compiled, inkind, input, ret, tvars, avars>>

\* init.lua:263: extensions and #extensions > 0 and confidence > 30;
\* a variant that exits at the threshold itself
Confident_ge(r) == DOMAIN r # {} /\ Confidence(r) >= confidence_threshold

Confident(r) == DOMAIN r # {} /\ Confidence(r) > confidence_threshold

\* init.lua:260-266
EarlyExit ==
    /\ pc = "decide"
    /\ Confident(res)
    /\ \E e \in TopExts(res) : ret' = Found(e)
    /\ pc' = "done"
    /\ UNCHANGED <<registry, was_compiled, inkind, input, res, scans, fired, resShort, tvars, avars>>

\* init.lua:268-284
LongScan ==
    /\ pc = "decide"
    /\ ~Confident(res)
    /\ LET inplen == Len(input)
       IN  IF inplen > chunk_size * 3
           THEN LET sp1 == lua_text_span(inplen, 1, Some(chunk_size * 2))
                    sp2 == lua_text_span(inplen, inplen - chunk_size,
                                         Some(chunk_size))
                    offset1 == 0
                    offset2 == inplen - chunk_size
                    r1 == match_chunk(Chunk(sp1), inplen, offset1,
                              compiled_patterns, processed_patterns, res)
                IN  IF sp1.err \/ sp2.err
                    THEN /\ pc' = "error"
                         /\ UNCHANGED <<res, scans, fired>>
                    ELSE /\ res' = match_chunk(Chunk(sp2), inplen, offset2,
                                       compiled_patterns, processed_patterns, r1)
                         /\ scans' = scans \o << Scan("long", sp1, offset1),
                                                 Scan("long", sp2, offset2) >>
                         /\ fired' = AddFired(
                                AddFired(fired, "long",
                                    ChunkFired(Chunk(sp1), inplen, offset1,
                                        compiled_patterns, processed_patterns)),
                                "long",
                                ChunkFired(Chunk(sp2), inplen, offset2,
                                    compiled_patterns, processed_patterns))
                         /\ pc' = "final"
           ELSE /\ res' = match_chunk(input, inplen, 0,
                              compiled_patterns, processed_patterns, res)
                /\ scans' = Append(scans,
                              Scan("long", SpanOk(0, inplen), 0))
                /\ fired' = AddFired(fired, "long",
                              ChunkFired(input, inplen, 0,
                                  compiled_patterns, processed_patterns))
                /\ pc' = "final"
    /\ UNCHANGED <<registry, was_compiled, inkind, input, ret, resShort, tvars, avars>>

\* init.lua:290-297
Final ==
    /\ pc = "final"
    /\ IF DOMAIN res # {}
       THEN \E e \in TopExts(res) : ret' = Found(e)
       ELSE ret' = NoRet
    /\ pc' = "done"
    /\ UNCHANGED <<registry, was_compiled, inkind, input, res, scans, fired, resShort, tvars, avars>>

\* the call is over (it returned, or the error went up to the caller): its
\* locals are gone, the module state stays for the next call
Return ==
    /\ pc \in {"done", "error"}
    /\ pc' = "idle"
    /\ inkind' = "string"
    /\ input' = << >>
    /\ res' = EmptyRes
    /\ resShort' = EmptyRes
    /\ ret' = NoRet
    /\ scans' = << >>
    /\ fired' = [tail |-> << >>, short |-> << >>, long |-> << >>]
    /\ UNCHANGED <<registry, was_compiled, tvars, avars>>

TextIdle == texts = << >> /\ heap = << >> /\ iters = << >>

\* no method has been called and no iterator made
NoCall == [op |-> "none", start |-> 0, len |-> None, out |-> << >>]
NoClosure ==
    [kind |-> "none", re |-> "", stringify |-> FALSE, pos |-> 0,
     yielded |-> << >>, done |-> FALSE]
ApiIdle == subject = << >> /\ call = NoCall /\ closure = NoClosure

Init ==
    /\ patterns \in Registries
    /\ compiled_patterns = NilTrie
    /\ compiled_short_patterns = NilTrie
    /\ compiled_tail_patterns = NilTrie
    /\ processed_patterns = << >>
    /\ short_patterns = << >>
    /\ tail_patterns = << >>
    /\ max_short_offset = -1
    /\ min_tail_offset = huge
    /\ pc = "idle"
    /\ inkind = "string"
    /\ input = << >>
    /\ res = EmptyRes
    /\ resShort = EmptyRes
    /\ was_compiled = FALSE
    /\ ret = NoRet
    /\ scans = << >>
    /\ fired = [tail |-> << >>, short |-> << >>, long |-> << >>]
    /\ TextIdle
    /\ ApiIdle

Next ==
    \/ \E inp \in Inputs : \E kind \in {"string", "userdata"} :
          DetectCall(kind, inp)
    \/ DetectCall("table", << >>)
    \/ TailCheck
    \/ ShortCheck
    \/ EarlyExit
    \/ LongScan
    \/ Final
    \/ Return

Spec == Init /\ [][Next]_vars

(***************************************************************************)
(* Properties of the detector                                              *)
(***************************************************************************)
IsLongScan(sc) == sc.tier = "long"
IsTailScan(sc) == sc.tier = "tail"
LongScans == SelectSeq(scans, IsLongScan)
TailScans == SelectSeq(scans, IsTailScan)
BytesInput == inkind \in {"string", "userdata"}
Returned == pc = "done" /\ BytesInput

\* C1: when the top weight after the tail and short checks is above 30,
\* detect returns a top candidate with its descriptor and makes no long scan;
\* otherwise the long scan is made before detect returns.
C1_EarlyExit ==
    Returned =>
        IF DOMAIN resShort # {} /\ Confidence(resShort) > 30
        THEN /\ ret.found
             /\ ret.ext \in TopExts(resShort)
             /\ ret.desc = types[ret.ext]
             /\ LongScans = << >>
        ELSE LongScans # << >>

\* an early exit on weight 31 although a heavier long pattern occurs
C1_Witness ==
    /\ Returned
    /\ patterns = RegExit
    /\ Confidence(resShort) = 31
    /\ ret = Found("a")
    /\ LongScans = << >>
    /\ \E k \in 0..Len(input) : OccursAt(<<2>>, input, k)

\* C2: with the registry {zip: "PK\x03\x04" at position 0, weight 50} every
\* input that begins with these four bytes is scored by the short check and
\* detect returns zip without a long scan.
C2_ZipShort ==
    (/\ Returned
     /\ patterns = RegZip
     /\ OccursAt(PK34, input, 0))
    => /\ ret = Found("zip")
       /\ fired.short[1] = 1
       /\ LongScans = << >>

\* C3: for len > 3 * chunk_size the long scan examines exactly [0, 2*chunk_size)
\* at offset 0 and [len - chunk_size, len) at offset len - chunk_size.
C3_ChunkRanges ==
    (/\ pc \in {"final", "done"}
     /\ BytesInput
     /\ Len(input) > 3 * chunk_size
     /\ LongScans # << >>)
    => LongScans =
         << [tier |-> "long", from |-> 0, to |-> 2 * chunk_size, offset |-> 0],
            [tier |-> "long", from |-> Len(input) - chunk_size,
             to |-> Len(input), offset |-> Len(input) - chunk_size] >>

\* C4: when len > min_tail_offset the tail check scans exactly the trailing
\* min_tail_offset bytes, so the tail pattern (tail = 4, weight 10) lying on
\* the last 4 bytes is scored by the tail check, once in the call.
C4_TailFound ==
    (/\ pc \in {"short", "decide", "final", "done"}
     /\ BytesInput
     /\ patterns = RegTail
     /\ Len(input) > min_tail_offset)
    => /\ TailScans =
            << [tier |-> "tail", from |-> Len(input) - min_tail_offset,
                to |-> Len(input), offset |-> Len(input) - min_tail_offset] >>
       /\ OccursAt(<<1, 2, 2, 1>>, input, Len(input) - 4)
            => (fired.tail[1] = 1 /\ res["tl"] = 10)

\* C5: detect raises no error on a byte string or a text of any length.
C5_NeverRaises == BytesInput => pc # "error"

\* C6: a pattern adds its weight at most once in a call; in particular a long
\* pattern with a single position adds once when both chunks match it.
C6_AtMostOnce ==
    \A i \in DOMAIN fired.long :
        ~processed_patterns[i].match.positions.has => fired.long[i] <= 1

\* C7: a pattern with a positions list adds its weight iff every constraint of
\* the list holds at one of the matched offsets at least.
C7_PositionsAnd ==
    (/\ pc \in {"final", "done"}
     /\ BytesInput
     /\ Len(input) <= 3 * chunk_size
     /\ LongScans # << >>)
    => \A i \in DOMAIN processed_patterns :
          LET m == processed_patterns[i].match
              offs == Offsets(processed_patterns[i].str, input)
          IN  (m.positions.has /\ m.position.t = "nil")
              => (fired.long[i] = 1
                    <=> /\ offs # << >>
                        /\ AllPositions_and(m, offs, 0, Len(input)))

\* every Match of the registry with its position resolved, in table order
ResolvedEntries ==
    LET flat == FlattenPatterns(patterns)
    IN  [i \in DOMAIN flat |->
            LET m == ResolveMatch(flat[i].match)
            IN  Entry(PatternStr(m), m, flat[i].ext)]
MaxOf(S) == CHOOSE x \in S : \A y \in S : x >= y
MinOf(S) == CHOOSE x \in S : \A y \in S : x <= y
Compiled == ~compiled_patterns.nil
TierOf(T) == {T[i] : i \in DOMAIN T}

PlainNumber(e) == e.match.position.t = "number"
\* the tiers as the claim words them
ClaimTail(e) == e.match.tail.has
ClaimShort(e) ==
    ~e.match.tail.has /\ PlainNumber(e) /\ e.match.position.v < 128
ClaimLong(e) == ~ClaimTail(e) /\ ~ClaimShort(e)
\* the tiers with Tail asking for a plain number as position, too
NumTail(e) == e.match.tail.has /\ PlainNumber(e)
NumShort(e) ==
    ~e.match.tail.has /\ PlainNumber(e) /\ e.match.position.v < 128
NumLong(e) == ~NumTail(e) /\ ~NumShort(e)

\* C8 as claimed: Tail if tail is set whatever the position is, else Short if
\* the position is a plain number < 128, else Long; min_tail_offset is the
\* least tail of the Matches with tail set, max_short_offset the greatest
\* position of the Short tier.
C8_TiersClaimed ==
    Compiled =>
        /\ tail_patterns = SelectSeq(ResolvedEntries, ClaimTail)
        /\ short_patterns = SelectSeq(ResolvedEntries, ClaimShort)
        /\ processed_patterns = SelectSeq(ResolvedEntries, ClaimLong)
        /\ \A e \in TierOf(SelectSeq(ResolvedEntries, ClaimTail)) :
              min_tail_offset <= e.match.tail.v
        /\ tail_patterns # << >> =>
              \E e \in TierOf(tail_patterns) : min_tail_offset = e.match.tail.v
        /\ short_patterns # << >> =>
              max_short_offset =
                  MaxOf({e.match.position.v : e \in TierOf(short_patterns)})

\* C8 amended: Tail if tail is set and the resolved position is a plain
\* number; else Short if the position is a plain number < 128; else Long, a
\* Match with tail set and no plain number as position included.
\* min_tail_offset is the least tail of the Tail tier (math.huge when it is
\* empty), max_short_offset the greatest of -1 and the Short positions.
C8_Tiers ==
    Compiled =>
        /\ tail_patterns = SelectSeq(ResolvedEntries, NumTail)
        /\ short_patterns = SelectSeq(ResolvedEntries, NumShort)
        /\ processed_patterns = SelectSeq(ResolvedEntries, NumLong)
        /\ Len(tail_patterns) + Len(short_patterns) + Len(processed_patterns)
              = Len(ResolvedEntries)
        /\ min_tail_offset =
              MinOf({huge} \cup {e.match.tail.v : e \in TierOf(tail_patterns)})
        /\ max_short_offset =
              MaxOf({-1} \cup {e.match.position.v : e \in TierOf(short_patterns)})

\* a compiled registry with all three tiers, a Match with tail set in the
\* long tier and a smaller tail there than min_tail_offset
C8_Witness ==
    /\ Compiled
    /\ tail_patterns # << >>
    /\ short_patterns # << >>
    /\ \E e \in TierOf(processed_patterns) :
          e.match.tail.has /\ e.match.tail.v < min_tail_offset
    /\ \E e \in TierOf(processed_patterns) : e.match.position.v >= 128

(***************************************************************************)
(* rspamd_text userdata and their storage (lua_text.c)                     *)
(*                                                                         *)
(* heap[b]  : a storage block: its bytes, the allocator it came from, the  *)
(*            userdata that owns it (0: a Lua string, owned by the Lua     *)
(*            collector) and the frees applied to it so far.               *)
(* texts[i] : a struct rspamd_lua_text: start = (blk, off) with blk = 0    *)
(*            for NULL or the static "", len, flags, whether the userdata  *)
(*            has the rspamd{text} metatable, and whether Lua still holds  *)
(*            it.                                                          *)
(* iters[k] : a closure of rspamd_lua_text_readline with its upvalues.     *)
(***************************************************************************)
\* the userdata, storage blocks and closures one run creates
MaxObjects == 4
\* the strings handed to fromstring and fromtable
Strs == {<< >>, <<65, 10>>}
Delims == {<< >>, <<44>>}
\* what a read of freed storage may find: the allocator's fill, or the bytes
\* of whatever was allocated there since
StaleBytes == {0, 65}

Block(bytes, alloc, owner) ==
    [bytes |-> bytes, alloc |-> alloc, owner |-> owner, frees |-> << >>]
Text(blk, off, len, flags, class) ==
    [blk |-> blk, off |-> off, len |-> len, flags |-> flags, class |-> class,
     live |-> TRUE]
\* a userdata Lua has collected: nothing of it can be reached any more
Collected == [Text(0, 0, 0, {}, FALSE) EXCEPT !.live = FALSE]
Own(t) == "OWN" \in t.flags
Freed(b) == heap[b].frees # << >>
Zeros(n) == [i \in 1..n |-> 0]

\* the byte strings a read of t->start[0 .. t->len) may return: the bytes
\* viewed, or anything at all when the storage has been freed
ReadBytes(h, t) ==
    IF t.blk = 0 \/ t.len = 0 THEN {<< >>}
    ELSE IF h[t.blk].frees = << >>
         THEN {SubSeqAt(h[t.blk].bytes, t.off, t.len)}
         ELSE {[i \in 1..t.len |-> b] : b \in StaleBytes}

\* g_malloc(n) with the n bytes copied in: NULL for n = 0
Alloc(h, bytes, owner) ==
    IF bytes = << >> THEN [heap |-> h, blk |-> 0]
    ELSE [heap |-> Append(h, Block(bytes, "g_malloc", owner)),
          blk |-> Len(h) + 1]

\* lua_text.c:142-171; start = (blk, off), idx is the index of the new
\* userdata, src are the len bytes memcpy reads at start when own is set
lua_new_text(h, idx, blk, off, len, own, src) ==
    IF own
    THEN IF len > 0
         THEN [heap |-> Append(h, Block(src, "g_malloc", idx)),
               text |-> Text(Len(h) + 1, 0, len, {"OWN"}, TRUE)]
         ELSE [heap |-> h, text |-> Text(0, 0, len, {}, TRUE)]
    ELSE [heap |-> h, text |-> Text(blk, off, len, {}, TRUE)]

\* n more objects can be created
Room(n) == Len(texts) + Len(heap) + Len(iters) + n <= MaxObjects
\* a userdata Lua code can call methods on
Usable(i) == i \in DOMAIN texts /\ texts[i].live /\ texts[i].class

\* lua_text.c:174-197; a transparent text points into the Lua string
lua_text_fromstring(str, transparent) ==
    /\ Room(IF str = << >> /\ ~transparent THEN 1 ELSE 2)
    /\ LET h0 == IF transparent THEN Append(heap, Block(str, "lua", 0))
                 ELSE heap
           r == lua_new_text(h0, Len(texts) + 1, Len(h0), 0, Len(str),
                             ~transparent, str)
       IN  /\ heap' = r.heap
           /\ texts' = Append(texts, r.text)
    /\ UNCHANGED <<iters, dvars, avars>>

\* the Lua collector frees a string no Lua value refers to; a text made
\* from it with transparent = true is no such reference
LuaStringCollect(b) ==
    /\ b \in DOMAIN heap
    /\ heap[b].alloc = "lua"
    /\ ~Freed(b)
    /\ heap' = [heap EXCEPT ![b] =
                  [@ EXCEPT !.bytes = << >>,
                            !.frees = Append(@, [by |-> 0, how |-> "lua",
                                                 flags |-> {},
                                                 zeroed |-> FALSE])]]
    /\ UNCHANGED <<texts, iters, dvars, avars>>

\* a text pushed by another module of rspamd, which owns its storage and
\* says by its flags how it was allocated and whether it is to be wiped
external_text(str, how, secure) ==
    /\ Room(2)
    /\ heap' = Append(heap,
                 Block(str, CASE how = "MMAPED" -> "mmap"
                              [] how = "SYSMALLOC" -> "malloc"
                              [] OTHER -> "g_malloc",
                       Len(texts) + 1))
    /\ texts' = Append(texts,
                  Text(Len(heap) + 1, 0, Len(str),
                       {"OWN"} \cup (IF how = "" THEN {} ELSE {how})
                               \cup (IF secure THEN {"WIPE"} ELSE {}),
                       TRUE))
    /\ UNCHANGED <<iters, dvars, avars>>

\* lua_text.c:199-282; a part is a Lua string or a text
PartStr(s) == [istext |-> FALSE, idx |-> 0, str |-> s]
PartText(i) == [istext |-> TRUE, idx |-> i, str |-> << >>]
Parts == {PartStr(s) : s \in Strs} \cup {PartText(i) : i \in 1..MaxObjects}
PartBytes(h, p) ==
    IF p.istext THEN ReadBytes(h, texts[p.idx]) ELSE {p.str}
\* the tables handed to fromtable: no entry, one entry, two entries
Tables ==
    {<< >>} \cup {<<p>> : p \in Parts} \cup {<<p, q>> : p \in Parts, q \in Parts}
RECURSIVE Joined(_, _, _)
Joined(h, parts, delim) ==
    IF parts = << >> THEN {<< >>}
    ELSE IF Len(parts) = 1 THEN PartBytes(h, parts[1])
    ELSE {b \o delim \o rest : b \in PartBytes(h, parts[1]),
                                rest \in Joined(h, Tail(parts), delim)}

lua_text_fromtable(parts, delim) ==
    /\ \A k \in DOMAIN parts : parts[k].istext => Usable(parts[k].idx)
    /\ \E bytes \in Joined(heap, parts, delim) :
          LET a == Alloc(heap, bytes, Len(texts) + 1)
          IN  /\ Room(IF bytes = << >> THEN 1 ELSE 2)
              /\ heap' = a.heap
              /\ texts' = Append(texts,
                            Text(a.blk, 0, Len(bytes), {"OWN"}, TRUE))
    /\ UNCHANGED <<iters, dvars, avars>>

\* a take_ownership that keeps the pointer and only sets the flag
OwnedCopy_nocopy(h, i, t, bytes) ==
    [heap |-> h, text |-> [t EXCEPT !.flags = @ \cup {"OWN"}]]

\* lua_text.c:347-352: dest = g_malloc(len); memcpy; start = dest; OWN
OwnedCopy(h, i, t, bytes) ==
    LET a == Alloc(h, bytes, i)
    IN  [heap |-> a.heap,
         text |-> [t EXCEPT !.blk = a.blk, !.off = 0,
                            !.flags = @ \cup {"OWN"}]]

\* lua_text.c:335-360
lua_text_take_ownership(i) ==
    /\ Usable(i)
    /\ IF Own(texts[i])
       THEN UNCHANGED <<texts, heap>>
       ELSE \E bytes \in ReadBytes(heap, texts[i]) :
                  LET r == OwnedCopy(heap, i, texts[i], bytes)
                  IN  /\ Room(IF bytes = << >> THEN 0 ELSE 1)
                      /\ heap' = r.heap
                      /\ texts' = [texts EXCEPT ![i] = r.text]
    /\ UNCHANGED <<iters, dvars, avars>>

\* lua_text.c:362-394, the call that succeeds: a view of the same storage
lua_text_span_ok(i, start, len) ==
    /\ Usable(i)
    /\ Room(1)
    /\ LET t == texts[i]
           sp == lua_text_span(t.len, start, len)
       IN  /\ ~sp.err
           /\ texts' = Append(texts,
                 lua_new_text(heap, Len(texts) + 1, t.blk, t.off + sp.off,
                              sp.len, FALSE, << >>).text)
    /\ UNCHANGED <<heap, iters, dvars, avars>>

(***************************************************************************)
(* text:lines() (lua_text.c:396-503)                                       *)
(***************************************************************************)
\* memchr(start + pos, ch, len - pos): the 0-based index found, -1 for NULL
memchr(bytes, pos, ch) ==
    LET hits == {k \in pos..(Len(bytes) - 1) : bytes[k + 1] = ch}
    IN  IF hits = {} THEN -1 ELSE MinOf(hits)

IsSep(c) == c = 10 \/ c = 13

\* lua_text.c:412-419: the line without its trailing \r and \n
RECURSIVE TrimLen(_, _, _)
TrimLen(bytes, off, len) ==
    IF len > 0 /\ IsSep(bytes[off + len]) THEN TrimLen(bytes, off, len - 1)
    ELSE len

\* lua_text.c:396-434: the element pushed and the position returned
rspamd_lua_text_push_line(bytes, start_offset, sep_pos) ==
    LET len == IF sep_pos # -1 THEN sep_pos - start_offset
               ELSE Len(bytes) - start_offset
    IN  [ret |-> start_offset + len,
         off |-> start_offset,
         len |-> TrimLen(bytes, start_offset, len)]

\* a skip of one separator only
SkipSeps_one(bytes, pos) ==
    IF pos < Len(bytes) /\ IsSep(bytes[pos + 1]) THEN pos + 1 ELSE pos

\* lua_text.c:464-472
RECURSIVE SkipSeps(_, _)
SkipSeps(bytes, pos) ==
    IF pos < Len(bytes) /\ IsSep(bytes[pos + 1]) THEN SkipSeps(bytes, pos + 1)
    ELSE pos

\* lua_text.c:452-462
LineOf(bytes, pos) ==
    LET nl == memchr(bytes, pos, 10)
        sep_pos == IF nl = -1 THEN memchr(bytes, pos, 13) ELSE nl
    IN  rspamd_lua_text_push_line(bytes, pos, sep_pos)

\* lua_text.c:481-503: the closure keeps the text as its first upvalue
lua_text_lines(i, stringify) ==
    /\ Usable(i)
    /\ Room(1)
    /\ iters' = Append(iters, [text |-> i, stringify |-> stringify, pos |-> 0,
                               live |-> TRUE])
    /\ UNCHANGED <<texts, heap, dvars, avars>>

\* lua_text.c:436-479, a call that yields an element; the userdata pushed
\* at 427-430 gets no metatable
rspamd_lua_text_readline(k) ==
    /\ k \in DOMAIN iters
    /\ iters[k].live
    /\ LET it == iters[k]
           t == texts[it.text]
       IN  /\ it.pos < t.len
           /\ \E bytes \in ReadBytes(heap, t) :
                 LET ln == LineOf(bytes, it.pos)
                 IN  /\ iters' = [iters EXCEPT ![k].pos = SkipSeps(bytes, ln.ret)]
                     /\ IF it.stringify
                        THEN UNCHANGED texts
                        ELSE /\ Room(1)
                             /\ texts' = Append(texts,
                                   Text(t.blk, t.off + ln.off, ln.len, {}, FALSE))
    /\ UNCHANGED <<heap, dvars, avars>>

\* the closure is dropped by Lua
DropIter(k) ==
    /\ k \in DOMAIN iters
    /\ iters[k].live
    /\ iters' = [iters EXCEPT ![k] =
                   [text |-> 0, stringify |-> FALSE, pos |-> 0, live |-> FALSE]]
    /\ UNCHANGED <<texts, heap, dvars, avars>>

(***************************************************************************)
(* wipe and __gc (lua_text.c:769-797, 816-836)                             *)
(***************************************************************************)
ZeroRange(bytes, off, len) ==
    [j \in DOMAIN bytes |-> IF j > off /\ j <= off + len THEN 0 ELSE bytes[j]]

\* lua_text.c:816-836, on a text that owns its bytes (else it raises)
lua_text_wipe(i) ==
    /\ Usable(i)
    /\ Own(texts[i])
    /\ texts[i].blk # 0
    /\ heap' = [heap EXCEPT ![texts[i].blk].bytes =
                  ZeroRange(@, texts[i].off, texts[i].len)]
    /\ UNCHANGED <<texts, iters, dvars, avars>>

\* lua_text.c:781-791
FreeStrategy(t) ==
    IF "MMAPED" \in t.flags THEN "munmap"
    ELSE IF "SYSMALLOC" \in t.flags THEN "free"
    ELSE "g_free"

\* the block t points to is given back: its bytes are zeroed first when
\* WIPE is set, and are gone afterwards
FreeBlock(h, i, t) ==
    IF t.blk = 0 THEN h
    ELSE [h EXCEPT ![t.blk] =
            [@ EXCEPT !.bytes = << >>,
                      !.frees = Append(@, [by |-> i, how |-> FreeStrategy(t),
                                           flags |-> t.flags,
                                           zeroed |-> "WIPE" \in t.flags])]]

\* a __gc that frees whatever the text points to
ReleaseStorage_any(h, i, t) == FreeBlock(h, i, t)

\* lua_text.c:775-793: the heap after __gc of texts[i] = t
ReleaseStorage(h, i, t) == IF Own(t) THEN FreeBlock(h, i, t) ELSE h

\* Lua collects a userdata nothing refers to: with the metatable it runs
\* lua_text_gc (lua_text.c:769-797) once, without it nothing is run
lua_text_gc(i) ==
    /\ i \in DOMAIN texts
    /\ texts[i].live
    /\ \A k \in DOMAIN iters : iters[k].live => iters[k].text # i
    /\ texts' = [texts EXCEPT ![i] = Collected]
    /\ heap' = IF texts[i].class THEN ReleaseStorage(heap, i, texts[i])
               ELSE heap
    /\ UNCHANGED <<iters, dvars, avars>>

InitText ==
    /\ TextIdle
    /\ ApiIdle
    /\ patterns = RegZip
    /\ compiled_patterns = NilTrie
    /\ compiled_short_patterns = NilTrie
    /\ compiled_tail_patterns = NilTrie
    /\ processed_patterns = << >>
    /\ short_patterns = << >>
    /\ tail_patterns = << >>
    /\ max_short_offset = -1
    /\ min_tail_offset = huge
    /\ pc = "idle"
    /\ inkind = "string"
    /\ input = << >>
    /\ res = EmptyRes
    /\ resShort = EmptyRes
    /\ was_compiled = FALSE
    /\ ret = NoRet
    /\ scans = << >>
    /\ fired = [tail |-> << >>, short |-> << >>, long |-> << >>]

NextText ==
    \/ \E str \in Strs, transparent \in BOOLEAN :
          lua_text_fromstring(str, transparent)
    \/ \E b \in 1..MaxObjects : LuaStringCollect(b)
    \/ \E str \in Strs \ {<< >>}, how \in {"", "MMAPED", "SYSMALLOC"},
          secure \in BOOLEAN : external_text(str, how, secure)
    \/ \E parts \in Tables, delim \in Delims :
          lua_text_fromtable(parts, delim)
    \/ \E i \in 1..MaxObjects : lua_text_take_ownership(i)
    \/ \E i \in 1..MaxObjects, start \in 1..2, len \in {None, Some(1)} :
          lua_text_span_ok(i, start, len)
    \/ \E i \in 1..MaxObjects, stringify \in BOOLEAN : lua_text_lines(i, stringify)
    \/ \E k \in 1..MaxObjects : rspamd_lua_text_readline(k)
    \/ \E k \in 1..MaxObjects : DropIter(k)
    \/ \E i \in 1..MaxObjects : lua_text_wipe(i)
    \/ \E i \in 1..MaxObjects : lua_text_gc(i)

SpecText == InitText /\ [][NextText]_vars

(***************************************************************************)
(* Properties of the texts                                                 *)
(***************************************************************************)
\* the free that gives back what the allocator handed out
StrategyFor(alloc) ==
    CASE alloc = "mmap" -> "munmap"
      [] alloc = "malloc" -> "free"
      [] alloc = "g_malloc" -> "g_free"
      [] OTHER -> "lua"
\* the free the flags of the releasing text ask for
TagStrategy(flags) ==
    IF "MMAPED" \in flags THEN "munmap"
    ELSE IF "SYSMALLOC" \in flags THEN "free"
    ELSE "g_free"
TextBlocks == {b \in DOMAIN heap : heap[b].owner # 0}
LuaBlocks == {b \in DOMAIN heap : heap[b].owner = 0}
Borrowed(i) ==
    i \in DOMAIN texts /\ texts[i].live /\ ~Own(texts[i]) /\ texts[i].blk # 0

\* C9: every storage block a text owns is freed at most once, and exactly
\* once when its owner has been released; only the release of the owning
\* text frees it, so the release of a text without OWN frees nothing (nor
\* does any text free a Lua string); the free applied is the one the
\* ownership flags name (munmap for MMAPED, free for SYSMALLOC, g_free
\* otherwise) and the one that matches the allocation; the bytes are
\* zeroed before the free iff the releasing text has WIPE
C9_ReleaseOnce ==
    /\ \A b \in TextBlocks :
          /\ Len(heap[b].frees) <= 1
          /\ ~texts[heap[b].owner].live => Len(heap[b].frees) = 1
          /\ \A k \in DOMAIN heap[b].frees :
                LET e == heap[b].frees[k]
                IN  /\ e.by = heap[b].owner
                    /\ "OWN" \in e.flags
                    /\ e.how = TagStrategy(e.flags)
                    /\ e.how = StrategyFor(heap[b].alloc)
                    /\ e.zeroed <=> "WIPE" \in e.flags
    /\ \A b \in LuaBlocks :
          \A k \in DOMAIN heap[b].frees : heap[b].frees[k].by = 0

\* a secure text over malloc'ed storage has been released: its bytes were
\* zeroed and given to free
C9_Witness ==
    /\ \E b \in TextBlocks :
          /\ Len(heap[b].frees) = 1
          /\ heap[b].frees[1].zeroed
          /\ heap[b].frees[1].how = "free"
    /\ \E i \in DOMAIN texts : ~texts[i].live

\* C10 as claimed: no live text without OWN points at freed storage
C10_NoDangling ==
    \A i \in DOMAIN texts : Borrowed(i) => ~Freed(texts[i].blk)

\* C10: the storage a live text without OWN points at is freed only by the
\* release of its owner (the owning text's __gc, or the Lua collector for a
\* Lua string): while the owner lives the view is valid, and no release of
\* a view, no take_ownership and no iteration takes the storage away
C10_FreedOnlyByOwner ==
    \A i \in DOMAIN texts :
       Borrowed(i) /\ Freed(texts[i].blk) =>
          LET b == heap[texts[i].blk]
          IN  /\ \A k \in DOMAIN b.frees : b.frees[k].by = b.owner
              /\ b.owner # 0 => ~texts[b.owner].live

\* a view is alive over live storage after another text has been released
C10_Witness ==
    /\ \E i \in DOMAIN texts : Borrowed(i) /\ ~Freed(texts[i].blk)
    /\ \E j \in DOMAIN texts : ~texts[j].live


\* C13: once the tries are compiled no step of any detect call changes the
\* tier tables, the tries, max_short_offset or min_tail_offset, and every
\* match of the registry stands in the tiers once
C13_CompileOnce ==
    [][~compiled_patterns.nil =>
         /\ registry' = registry
         /\ Len(processed_patterns') + Len(short_patterns')
              + Len(tail_patterns') = Len(FlattenPatterns(patterns))]_vars

\* a later detect call has run to its end on the registry the first built
C13_Witness == was_compiled /\ pc = "done" /\ ~compiled_patterns.nil

(***************************************************************************)
(* The methods of one rspamd_text                                          *)
(*                                                                         *)
(* subject : the bytes of the text the methods are called on.              *)
(* call    : the last call of span, at or bytes with its arguments and     *)
(*           what it returned.                                             *)
(* closure : the iterator returned by lines or split: its upvalues and     *)
(*           what every call of it returned so far.                        *)
(***************************************************************************)
\* texts are at most MaxApiLen bytes long
MaxApiLen == 4
\* a letter, \n, \r and a byte above 127
ApiAlphabet == {65, 10, 13, 200}
ApiTexts == SeqsUpTo(ApiAlphabet, MaxApiLen)
\* the integers handed over as start, length or position
ApiInts == (0 - 2)..(MaxApiLen + 2)

InitApi ==
    /\ subject \in ApiTexts
    /\ call = NoCall
    /\ closure = NoClosure
    /\ TextIdle
    /\ patterns = RegZip
    /\ compiled_patterns = NilTrie
    /\ compiled_short_patterns = NilTrie
    /\ compiled_tail_patterns = NilTrie
    /\ processed_patterns = << >>
    /\ short_patterns = << >>
    /\ tail_patterns = << >>
    /\ max_short_offset = -1
    /\ min_tail_offset = huge
    /\ pc = "idle"
    /\ inkind = "string"
    /\ input = << >>
    /\ res = EmptyRes
    /\ resShort = EmptyRes
    /\ was_compiled = FALSE
    /\ ret = NoRet
    /\ scans = << >>
    /\ fired = [tail |-> << >>, short |-> << >>, long |-> << >>]

\* nothing has been done with the subject yet
Fresh == call = NoCall /\ closure = NoClosure

\* lua_text.c:362-394: t:span(start [, len]) on the subject
span_call(start, len) ==
    /\ Fresh
    /\ call' = [op |-> "span", start |-> start, len |-> len,
                out |-> lua_text_span(Len(subject), start, len)]
    /\ UNCHANGED <<subject, closure, dvars, tvars>>

\* the value of a gchar holding byte b, as an integer: gchar is char, signed
\* on some targets (x86) and unsigned on others (ARM)
GcharValues(b) == {b, IF b >= 128 THEN b - 256 ELSE b}

\* lua_text.c:662-682: nil out of range, else t->start[pos - 1] pushed as
\* the gchar it is
lua_text_at(bytes, pos) ==
    IF pos > 0 /\ pos <= Len(bytes)
    THEN {[nil |-> FALSE, v |-> c] : c \in GcharValues(bytes[pos])}
    ELSE {[nil |-> TRUE, v |-> 0]}

\* lua_text.c:684-703: the table of (guchar) t->start[i]
lua_text_bytes(bytes) == [i \in 1..Len(bytes) |-> bytes[i] % 256]

at_call(pos) ==
    /\ Fresh
    /\ \E r \in lua_text_at(subject, pos) :
          call' = [op |-> "at", start |-> pos, len |-> None, out |-> r]
    /\ UNCHANGED <<subject, closure, dvars, tvars>>

bytes_call ==
    /\ Fresh
    /\ call' = [op |-> "bytes", start |-> 0, len |-> None,
                out |-> lua_text_bytes(subject)]
    /\ UNCHANGED <<subject, closure, dvars, tvars>>

\* lua_text.c:481-503: t:lines([stringify]) on the subject
lines_call(stringify) ==
    /\ Fresh
    /\ closure' = [NoClosure EXCEPT !.kind = "lines", !.stringify = stringify]
    /\ UNCHANGED <<subject, call, dvars, tvars>>

\* what a call of the closure gave back as its one result: pushed tells
\* whether it pushed a value for it, before and after are the pos upvalue
Yield(bytes, pushed, before, after) ==
    [bytes |-> bytes, pushed |-> pushed, before |-> before, after |-> after]

\* lua_text.c:436-479: one call of the closure lines returned; the element
\* is the string, or the text viewing the same bytes
readline_call ==
    /\ closure.kind = "lines"
    /\ ~closure.done
    /\ IF closure.pos >= Len(subject)
       THEN closure' = [closure EXCEPT !.done = TRUE]
       ELSE LET ln == LineOf(subject, closure.pos)
            IN  closure' =
                  [closure EXCEPT
                     !.pos = SkipSeps(subject, ln.ret),
                     !.yielded =
                        Append(@, Yield(SubSeqAt(subject, ln.off, ln.len),
                                        TRUE, closure.pos,
                                        SkipSeps(subject, ln.ret)))]
    /\ UNCHANGED <<subject, call, dvars, tvars>>

(***************************************************************************)
(* text:split(regexp) (lua_text.c:505-655).  rspamd_regexp_search is not   *)
(* part of these sources: it searches text[0 .. len) from *end on when     *)
(* *end is set, returns the leftmost match there in *start and *end, and   *)
(* leaves both alone when it finds none.  Three patterns stand for the     *)
(* regexps: \n, \n+ and \n*, the last of which matches the empty string.   *)
(***************************************************************************)
Regexps == {"\\n", "\\n+", "\\n*"}
\* the index after the run of \n that starts at the 0-based index i
RECURSIVE RunEnd(_, _)
RunEnd(bytes, i) ==
    IF i < Len(bytes) /\ bytes[i + 1] = 10 THEN RunEnd(bytes, i + 1) ELSE i
NoMatch == [matched |-> FALSE, start |-> 0, end |-> 0]
Match(start, end) == [matched |-> TRUE, start |-> start, end |-> end]
rspamd_regexp_search(bytes, re, from) ==
    IF Len(bytes) - from <= 0 THEN NoMatch
    ELSE IF re = "\\n*" THEN Match(from, RunEnd(bytes, from))
    ELSE LET nl == memchr(bytes, from, 10)
         IN  IF nl = -1 THEN NoMatch
             ELSE IF re = "\\n+" THEN Match(nl, RunEnd(bytes, nl))
             ELSE Match(nl, nl + 1)

\* lua_text.c:529-562, the for (;;) loop entered with end: what it leaves
\* in matched and end, and the segment [from, to) it pushed, if any
RECURSIVE SplitLoop(_, _, _)
SplitLoop(bytes, re, end) ==
    LET m == rspamd_regexp_search(bytes, re, end)
    IN  IF m.matched
        THEN IF m.start - end > 0
             THEN [matched |-> TRUE, pushed |-> TRUE, from |-> end,
                   to |-> m.start, end |-> m.end]
             ELSE IF m.start = m.end
             THEN [matched |-> FALSE, pushed |-> FALSE, from |-> 0, to |-> 0,
                   end |-> m.end]
             ELSE SplitLoop(bytes, re, m.end)
        ELSE [matched |-> FALSE, pushed |-> FALSE, from |-> 0, to |-> 0,
              end |-> end]

\* lua_text.c:564-587: the last element and the new pos
SplitTail(bytes, l) ==
    IF ~l.matched /\ (Len(bytes) > 0 /\ l.end < Len(bytes))
    THEN [pushed |-> TRUE, from |-> l.end, to |-> Len(bytes),
          pos |-> Len(bytes)]
    ELSE [pushed |-> l.pushed, from |-> l.from, to |-> l.to, pos |-> l.end]

\* lua_text.c:596-655: t:split(regexp [, stringify]) on the subject
split_call(re, stringify) ==
    /\ Fresh
    /\ closure' = [NoClosure EXCEPT !.kind = "split", !.re = re,
                                    !.stringify = stringify]
    /\ UNCHANGED <<subject, call, dvars, tvars>>

\* lua_text.c:505-595: one call of the closure split returned.  It returns
\* 0 at the end of the text and 1 otherwise, whether or not it pushed a
\* value; with nothing pushed Lua takes whatever lies on top of the stack
regexp_split_call ==
    /\ closure.kind = "split"
    /\ ~closure.done
    /\ IF closure.pos >= Len(subject)
       THEN closure' = [closure EXCEPT !.done = TRUE]
       ELSE LET r == SplitTail(subject,
                               SplitLoop(subject, closure.re, closure.pos))
            IN  closure' =
                  [closure EXCEPT
                     !.pos = r.pos,
                     !.yielded =
                        Append(@, Yield(IF r.pushed
                                        THEN SubSeqAt(subject, r.from,
                                                      r.to - r.from)
                                        ELSE << >>,
                                        r.pushed, closure.pos, r.pos))]
    /\ UNCHANGED <<subject, call, dvars, tvars>>

NextApi ==
    \/ \E start \in ApiInts, len \in {None} \cup {Some(l) : l \in ApiInts} :
          span_call(start, len)
    \/ \E pos \in ApiInts : at_call(pos)
    \/ bytes_call
    \/ \E stringify \in BOOLEAN : lines_call(stringify)
    \/ readline_call
    \/ \E re \in Regexps, stringify \in BOOLEAN : split_call(re, stringify)
    \/ regexp_split_call

SpecApi == InitApi /\ [][NextApi]_vars

(***************************************************************************)
(* Properties of the methods                                               *)
(***************************************************************************)
\* C11: span(start, len) on a text of n bytes raises exactly when start is
\* outside [1, n] or a given len is above the n - (start - 1) bytes that
\* remain; otherwise the text returned views bytes [start - 1,
\* start - 1 + len) of the subject, len being the remaining bytes when it
\* is not given, and so lies within the subject
C11_SliceRange ==
    call.op = "span" =>
       LET n == Len(subject)
           remaining == n - (call.start - 1)
           length == IF call.len.has THEN call.len.v ELSE remaining
       IN  /\ call.out.err <=>
                 \/ call.start < 1
                 \/ call.start > n
                 \/ call.len.has /\ call.len.v > remaining
           /\ ~call.out.err =>
                 /\ call.out.off = call.start - 1
                 /\ call.out.len = length
                 /\ call.out.len >= 0
                 /\ call.out.off + call.out.len <= n

\* table.concat(lines, "\n")
RECURSIVE JoinLines(_)
JoinLines(ys) ==
    IF ys = << >> THEN << >>
    ELSE IF Len(ys) = 1 THEN ys[1].bytes
    ELSE ys[1].bytes \o <<10>> \o JoinLines(Tail(ys))
WithoutCR(bytes) == SelectSeq(bytes, LAMBDA c : c # 13)
\* every run of \n and \r replaced by one \n
RECURSIVE CollapseSeps(_)
CollapseSeps(bytes) ==
    IF bytes = << >> THEN << >>
    ELSE IF IsSep(bytes[1])
    THEN <<10>> \o CollapseSeps(SubSeq(bytes, SkipSeps(bytes, 0) + 1,
                                        Len(bytes)))
    ELSE <<bytes[1]>> \o CollapseSeps(Tail(bytes))
NoTrailingSep(bytes) == bytes = << >> \/ ~IsSep(bytes[Len(bytes)])
LinesDone == closure.kind = "lines" /\ closure.stringify /\ closure.done
\* the \r at index i stands in a run of separators that holds a \n
InNewlineRun(bytes, i) ==
    \E j \in DOMAIN bytes :
       /\ bytes[j] = 10
       /\ \A k \in DOMAIN bytes :
             (k >= i /\ k <= j) \/ (k >= j /\ k <= i) => IsSep(bytes[k])
\* no \r stands inside a line that a later \n ends
NoInnerCR(bytes) ==
    \A i \in DOMAIN bytes :
       bytes[i] = 13 =>
          \/ InNewlineRun(bytes, i)
          \/ \A j \in DOMAIN bytes : j > i => bytes[j] # 10

\* C12 as claimed: for a text that does not end with \n or \r, the lines
\* yielded with stringify = true, joined with \n, are the text without its
\* \r bytes, and no line holds a \r or a \n
C12_LinesRoundTrip ==
    LinesDone /\ NoTrailingSep(subject) =>
       /\ JoinLines(closure.yielded) = WithoutCR(subject)
       /\ \A k \in DOMAIN closure.yielded :
             \A j \in DOMAIN closure.yielded[k].bytes :
                ~IsSep(closure.yielded[k].bytes[j])

\* C12: for a text that does not end with \n or \r and in which no \r
\* stands inside a line that a later \n ends, the lines yielded with
\* stringify = true, joined with \n, are the text with every run of \n and
\* \r replaced by one \n; whatever the text, no line holds a \n and no line
\* ends with a \r
C12_LinesJoin ==
    LinesDone =>
       /\ NoTrailingSep(subject) /\ NoInnerCR(subject) =>
             JoinLines(closure.yielded) = CollapseSeps(subject)
       /\ \A k \in DOMAIN closure.yielded :
             LET l == closure.yielded[k].bytes
             IN  /\ \A j \in DOMAIN l : l[j] # 10
                 /\ l # << >> => ~IsSep(l[Len(l)])

\* a text with a \r\n and a run of two \n has been read to its end
C12_Witness ==
    /\ LinesDone
    /\ NoTrailingSep(subject) /\ NoInnerCR(subject)
    /\ Len(closure.yielded) >= 2
    /\ \E i \in DOMAIN subject : subject[i] = 13
    /\ JoinLines(closure.yielded) # WithoutCR(subject)

\* C14: at(pos) returns nil exactly when pos is outside [1, len], and for
\* pos in [1, len] the integer in 0..255 that bytes() holds at index pos
C14_ByteAt ==
    call.op = "at" =>
       /\ call.out.nil <=> (call.start < 1 \/ call.start > Len(subject))
       /\ ~call.out.nil =>
             /\ call.out.v \in 0..255
             /\ call.out.v = lua_text_bytes(subject)[call.start]

\* C15: every call of the split closure that reports an element has pushed
\* one, the element is not empty, and the scan position has grown; the
\* position never passes the end of the text, so the iteration ends
C15_SplitWellFormed ==
    closure.kind = "split" =>
       /\ closure.pos <= Len(subject)
       /\ \A k \in DOMAIN closure.yielded :
             LET y == closure.yielded[k]
             IN  /\ y.pushed
                 /\ y.bytes # << >>
                 /\ y.after > y.before

=============================================================================
